---- MODULE Spec2Model ----
(***************************************************************************)
(* Counted limit/offset query wrapper of diesel-postgres (src/limit.rs).   *)
(*                                                                         *)
(* A caller wraps an inner query with counted_limit, adjusts the wrapper   *)
(* with the builder steps limit / offset, and then either renders it       *)
(* (walk_ast) or runs it against a connection (load_with_total).           *)
(* The SQL text is built as a real string, the bound parameters as a       *)
(* sequence, and the statement is evaluated the way PostgreSQL evaluates   *)
(* the statement walk_ast emits: a window count over the sub-select, then  *)
(* LIMIT and OFFSET applied outside it.                                    *)
(***************************************************************************)
EXTENDS Integers, Sequences, FiniteSets, TLC

VARIABLES
    pc,         \* position of the caller: "built", "rendered", "decoding", "done"
    query,      \* the inner query handed to counted_limit
    w,          \* the CountedLimitQuery value the caller currently owns
    calls,      \* the last two calls of the builder chain (all of it while
                \* the chain is no longer than that)
    prev,       \* the wrapper the last builder call consumed (its self)
    out,        \* result of the last walk_ast: [res, sql, binds]
    conn,       \* the connection load_with_total was given
    db_result,  \* the local db_result of load_with_total (value of self.load)
    result,     \* the QueryResult<CountedLimitResult> load_with_total returned
    execs       \* number of statements the connection has executed

vars == <<pc, query, w, calls, prev, out, conn, db_result, result, execs>>

-----------------------------------------------------------------------------
(* Bounds *)

MaxVal == 1       \* limit / offset values 0..MaxVal are enumerated
MaxRows == 2      \* the inner query matches 0..MaxRows rows

\* u32 values given to counted_limit / limit / offset: a small range, the
\* values of the documented scenarios, and a large boundary value.
Values == (0 .. MaxVal) \cup {5, 10, 20, 2147483647}

\* Numbers of rows the inner query matches in the database.
RowCounts == (0 .. MaxRows) \cup {25}

Min(a, b) == IF a < b THEN a ELSE b
Max(a, b) == IF a > b THEN a ELSE b

-----------------------------------------------------------------------------
(* The query builder pass (diesel AstPass in SQL-building mode) *)

Ok == "Ok"

EmptyPass == [sql |-> "", binds |-> <<>>]

\* out.push_sql(s): append literal text.
push_sql(o, s) == [o EXCEPT !.sql = @ \o s]

\* out.push_bind_param::<ty, _>(&v): the value goes to the bind list and the
\* text receives only the positional placeholder $k.
push_bind_param(o, ty, v) ==
    [sql   |-> o.sql \o "$" \o ToString(Len(o.binds) + 1),
     binds |-> Append(o.binds, [ty |-> ty, val |-> v])]

\* Inner queries: a list of fragments (literal text or a bound value) and
\* the outcome of rendering them.
SqlFrag(s) == [kind |-> "sql", text |-> s, ty |-> "", val |-> 0]
BindFrag(ty, v) == [kind |-> "bind", text |-> "", ty |-> ty, val |-> v]

Queries ==
    { [frags |-> <<SqlFrag("SELECT id FROM t")>>, err |-> Ok],
      [frags |-> <<SqlFrag("SELECT id FROM t WHERE a = "), BindFrag("Integer", 7)>>,
       err |-> Ok],
      [frags |-> <<SqlFrag("SELECT ")>>, err |-> "QueryBuilderError"] }

RECURSIVE push_frags(_, _)
push_frags(o, frags) ==
    IF frags = <<>> THEN o
    ELSE LET f == Head(frags)
             o1 == IF f.kind = "sql" THEN push_sql(o, f.text)
                   ELSE push_bind_param(o, f.ty, f.val)
         IN push_frags(o1, Tail(frags))

\* self.query.walk_ast(out.reborrow()): the inner query renders itself into
\* the same pass and reports Ok or its error.
query_walk_ast(q, o) == [res |-> q.err, out |-> push_frags(o, q.frags)]

\* self.limit as i64: a u32 is zero-extended to 64 bits; every u32 value is
\* representable as an i64, so the numeric value is unchanged.
as_i64(v) == v

-----------------------------------------------------------------------------
(* CountedLimitQuery *)

\* Variant: the offset field initialised from the limit argument.
counted_limit_offset_from_limit(q, n) == [query |-> q, limit |-> n, offset |-> n]

counted_limit(q, n) == [query |-> q, limit |-> n, offset |-> 0]

\* Variant: the offset step writes the limit field.
offset_writes_limit(self, n) == [self EXCEPT !.limit = n]

offset(self, n) == [self EXCEPT !.offset = n]

\* Variant: the limit step never lowers a limit already set.
limit_keeps_larger(self, n) == [self EXCEPT !.limit = Max(@, n)]

limit(self, n) == [self EXCEPT !.limit = n]

\* Variant: limit and offset bound in the opposite order.
walk_ast_swapped(self, o) ==
    LET o1 == push_sql(o, "SELECT *, COUNT(*) OVER () FROM (")
        r  == query_walk_ast(self.query, o1)
    IN  IF r.res # Ok THEN r
        ELSE LET o2 == push_sql(r.out, ") AS x LIMIT ")
                 o3 == push_bind_param(o2, "BigInt", as_i64(self.offset))
                 o4 == push_sql(o3, " OFFSET ")
                 o5 == push_bind_param(o4, "BigInt", as_i64(self.limit))
             IN [res |-> Ok, out |-> o5]

\* Variant: the sub-select is given no alias.
walk_ast_no_alias(self, o) ==
    LET o1 == push_sql(o, "SELECT *, COUNT(*) OVER () FROM (")
        r  == query_walk_ast(self.query, o1)
    IN  IF r.res # Ok THEN r
        ELSE LET o2 == push_sql(r.out, ") LIMIT ")
                 o3 == push_bind_param(o2, "BigInt", as_i64(self.limit))
                 o4 == push_sql(o3, " OFFSET ")
                 o5 == push_bind_param(o4, "BigInt", as_i64(self.offset))
             IN [res |-> Ok, out |-> o5]

\* Variant: limit and offset written into the text instead of bound.
walk_ast_inline(self, o) ==
    LET o1 == push_sql(o, "SELECT *, COUNT(*) OVER () FROM (")
        r  == query_walk_ast(self.query, o1)
    IN  IF r.res # Ok THEN r
        ELSE LET o2 == push_sql(r.out, ") AS x LIMIT ")
                 o3 == push_sql(o2, ToString(as_i64(self.limit)))
                 o4 == push_sql(o3, " OFFSET ")
                 o5 == push_sql(o4, ToString(as_i64(self.offset)))
             IN [res |-> Ok, out |-> o5]

walk_ast(self, o) ==
    LET o1 == push_sql(o, "SELECT *, COUNT(*) OVER () FROM (")
        r  == query_walk_ast(self.query, o1)
    IN  IF r.res # Ok THEN r
        ELSE LET o2 == push_sql(r.out, ") AS x LIMIT ")
                 o3 == push_bind_param(o2, "BigInt", as_i64(self.limit))
                 o4 == push_sql(o3, " OFFSET ")
                 o5 == push_bind_param(o4, "BigInt", as_i64(self.offset))
             IN [res |-> Ok, out |-> o5]

-----------------------------------------------------------------------------
(* Execution: RunQueryDsl::load over a PgConnection *)

Err(e) == [ok |-> FALSE, err |-> e]

\* A connection: the rows the inner query matches in the database (in the
\* order the database returns them), whether executing a statement fails,
\* and the index of a returned row that cannot be decoded as (U, i64)
\* (0: every row decodes).
Connections ==
    { [rows |-> [i \in 1 .. n |-> i], execErr |-> e, badRow |-> b] :
        n \in RowCounts, e \in {Ok}, b \in 0 .. MaxRows }
    \cup
    { [rows |-> [i \in 1 .. n |-> i], execErr |-> "DatabaseError", badRow |-> 0] :
        n \in RowCounts }

\* The text of the one statement shape the database is asked to run for the
\* inner query q: the sub-select in parentheses, LIMIT and OFFSET as the two
\* placeholders that follow the inner query's own.
PgStatement(q) ==
    LET inner == push_frags(EmptyPass, q.frags)
        k == Len(inner.binds)
    IN  "SELECT *, COUNT(*) OVER () FROM (" \o inner.sql \o ") AS x LIMIT $"
            \o ToString(k + 1) \o " OFFSET $" \o ToString(k + 2)

\* PostgreSQL evaluating the statement: the window count is taken over all
\* rows of the sub-select, then OFFSET rows are skipped and at most LIMIT
\* rows returned; each returned row carries the count as its last column.
\* Any other text, a wrong number of parameters or a negative LIMIT / OFFSET
\* is rejected.
PgExecute(stmt, q, c) ==
    LET k == Len(push_frags(EmptyPass, q.frags).binds)
        n == Len(c.rows)
    IN  IF stmt.sql # PgStatement(q) \/ Len(stmt.binds) # k + 2
        THEN Err("DatabaseError")
        ELSE LET lim == stmt.binds[k + 1].val
                 off == stmt.binds[k + 2].val
             IN  IF lim < 0 \/ off < 0 THEN Err("DatabaseError")
                 ELSE IF off >= n THEN [ok |-> TRUE, rows |-> <<>>]
                 ELSE [ok |-> TRUE,
                       rows |-> [i \in 1 .. Min(lim, n - off) |-> <<c.rows[off + i], n>>]]

\* self.load::<(U, i64)>(conn): render, execute once, decode every row.
load(self, c) ==
    LET r == walk_ast(self, EmptyPass)
    IN  IF r.res # Ok THEN Err(r.res)
        ELSE IF c.execErr # Ok THEN Err(c.execErr)
        ELSE LET e == PgExecute(r.out, self.query, c)
             IN  IF ~e.ok THEN e
                 ELSE IF c.badRow \in 1 .. Len(e.rows) THEN Err("DeserializationError")
                 ELSE e

\* Number of statements load sends to the connection: one, unless rendering
\* failed before anything was sent.
sent(self) == IF walk_ast(self, EmptyPass).res = Ok THEN 1 ELSE 0

\* Variant: the total is the number of rows of the page.
with_total_page_len(db) ==
    IF ~db.ok THEN db
    ELSE [ok |-> TRUE,
          results |-> [i \in 1 .. Len(db.rows) |-> db.rows[i][1]],
          count |-> Len(db.rows)]

\* Variant: the total is read from the last row.
with_total_last_row(db) ==
    IF ~db.ok THEN db
    ELSE [ok |-> TRUE,
          results |-> [i \in 1 .. Len(db.rows) |-> db.rows[i][1]],
          count |-> IF Len(db.rows) > 0 THEN db.rows[Len(db.rows)][2] ELSE 0]

\* Variant: the first row is indexed directly, which panics on no rows.
with_total_index_first(db) ==
    IF ~db.ok THEN db
    ELSE IF Len(db.rows) = 0 THEN [ok |-> FALSE, err |-> "panic"]
    ELSE [ok |-> TRUE,
          results |-> [i \in 1 .. Len(db.rows) |-> db.rows[i][1]],
          count |-> db.rows[1][2]]

\* Variant: a failed load is turned into an empty result.
with_total_swallow(db) ==
    IF ~db.ok THEN [ok |-> TRUE, results |-> <<>>, count |-> 0]
    ELSE [ok |-> TRUE,
          results |-> [i \in 1 .. Len(db.rows) |-> db.rows[i][1]],
          count |-> IF Len(db.rows) > 0 THEN db.rows[1][2] ELSE 0]

\* The body of load_with_total after self.load returned db: `?` hands an
\* error back unchanged; otherwise total is the count of the first row (0
\* for no rows) and results are the records in order.
with_total(db) ==
    IF ~db.ok THEN db
    ELSE LET total == IF Len(db.rows) > 0 THEN db.rows[1][2] ELSE 0
             results == [i \in 1 .. Len(db.rows) |-> db.rows[i][1]]
         IN [ok |-> TRUE, results |-> results, count |-> total]

load_with_total(self, c) == with_total(load(self, c))

-----------------------------------------------------------------------------
(* State machine *)

NotRendered == [res |-> "NotRendered", out |-> EmptyPass]
NotLoaded == Err("NotLoaded")
NoConn == [rows |-> <<>>, execErr |-> "NoConnection", badRow |-> 0]

Call(op, n) == [op |-> op, arg |-> n]

\* The record of the chain keeps its two most recent calls.
Remember(cs, c) == IF Len(cs) < 2 THEN Append(cs, c) ELSE <<cs[2], c>>

\* The caller has written  q.counted_limit(n)  for some query q and value n.
Init ==
    /\ pc = "built"
    /\ query \in Queries
    /\ \E n \in Values :
         /\ w = counted_limit(query, n)
         /\ calls = <<Call("counted_limit", n)>>
    /\ prev = w
    /\ out = NotRendered
    /\ conn = NoConn
    /\ db_result = NotLoaded
    /\ result = NotLoaded
    /\ execs = 0

Offset(n) ==
    /\ pc = "built"
    /\ w' = offset(w, n)
    /\ prev' = w
    /\ calls' = Remember(calls, Call("offset", n))
    /\ UNCHANGED <<pc, query, out, conn, db_result, result, execs>>

Limit(n) ==
    /\ pc = "built"
    /\ w' = limit(w, n)
    /\ prev' = w
    /\ calls' = Remember(calls, Call("limit", n))
    /\ UNCHANGED <<pc, query, out, conn, db_result, result, execs>>

\* The wrapper is rendered on its own (as diesel::debug_query does).
WalkAst ==
    /\ pc = "built"
    /\ out' = walk_ast(w, EmptyPass)
    /\ pc' = "rendered"
    /\ UNCHANGED <<query, w, calls, prev, conn, db_result, result, execs>>

LoadWithTotal(c) ==
    /\ pc \in {"built", "rendered"}
    /\ conn' = c
    /\ out' = walk_ast(w, EmptyPass)
    /\ execs' = execs + sent(w)
    /\ db_result' = load(w, c)
    /\ result' = load_with_total(w, c)
    /\ pc' = "done"
    /\ UNCHANGED <<query, w, calls, prev>>

Next ==
    \/ \E n \in Values : Offset(n)
    \/ \E n \in Values : Limit(n)
    \/ WalkAst
    \/ \E c \in Connections : LoadWithTotal(c)

Spec == Init /\ [][Next]_vars

-----------------------------------------------------------------------------
(* The decoding step alone, on arbitrary loaded rows *)

DecRecords == 1 .. MaxRows
DecCounts == (0 .. MaxRows) \cup {25}

RECURSIVE SeqsUpTo(_, _)
SeqsUpTo(S, n) ==
    IF n = 0 THEN {<<>>}
    ELSE LET shorter == SeqsUpTo(S, n - 1)
         IN shorter \cup {Append(s, x) : s \in {t \in shorter : Len(t) = n - 1}, x \in S}

DecodeInputs ==
    { [ok |-> TRUE, rows |-> r] : r \in SeqsUpTo(DecRecords \X DecCounts, MaxRows) }
    \cup { Err("DatabaseError"), Err("DeserializationError") }

InitDecode ==
    /\ pc = "decoding"
    /\ query \in {q \in Queries : Len(q.frags) = 1 /\ q.err = Ok}
    /\ w = counted_limit(query, 0)
    /\ calls = <<Call("counted_limit", 0)>>
    /\ prev = w
    /\ out = NotRendered
    /\ conn = NoConn
    /\ db_result \in DecodeInputs
    /\ result = NotLoaded
    /\ execs = 0

Decode ==
    /\ pc = "decoding"
    /\ result' = with_total(db_result)
    /\ pc' = "done"
    /\ UNCHANGED <<query, w, calls, prev, out, conn, db_result, execs>>

SpecDecode == InitDecode /\ [][Decode]_vars

-----------------------------------------------------------------------------
(* Properties *)

N == Len(conn.rows)
LastCall == calls[Len(calls)]
PlainQuery == [frags |-> <<SqlFrag("SELECT id FROM t")>>, err |-> Ok]
InnerPass == push_frags(EmptyPass, query.frags)
BigIntParam(v) == [ty |-> "BigInt", val |-> v]

\* C1 (as stated): a successful load_with_total returns a page of exactly
\* min(limit, max(0, N - offset)) rows and a total count equal to N, the
\* number of rows the inner query matches.
C1_PageAndTotalAlwaysN ==
    (pc = "done" /\ result.ok) =>
        /\ Len(result.results) = Min(w.limit, Max(0, N - w.offset))
        /\ result.count = N

\* C1 (amended): a successful load_with_total returns a page of exactly
\* min(limit, max(0, N - offset)) rows; the total count is N when that page
\* is non-empty and 0 when it is empty (limit = 0 or offset >= N).
C1_PageAndTotalOfNonEmptyPage ==
    (pc = "done" /\ result.ok) =>
        /\ Len(result.results) = Min(w.limit, Max(0, N - w.offset))
        /\ result.count = IF Len(result.results) > 0 THEN N ELSE 0

C1_Witness ==
    /\ pc = "done" /\ result.ok
    /\ N = 25 /\ w.limit = 10 /\ w.offset = 20
    /\ Len(result.results) = 5 /\ result.count = 25

\* C2: when the inner query matches zero rows and the statement is rendered
\* and executed, load_with_total succeeds for every limit and offset, with
\* empty results and count 0.
C2_EmptyInner ==
    (pc = "done" /\ N = 0 /\ query.err = Ok /\ conn.execErr = Ok) =>
        /\ result.ok
        /\ result.results = <<>>
        /\ result.count = 0

C2_Witness ==
    /\ pc = "done" /\ N = 0 /\ query.err = Ok /\ conn.execErr = Ok
    /\ w.limit = 10 /\ w.offset = 5 /\ conn.badRow = 1
    /\ result.ok /\ result.count = 0

\* C3: when the inner query matches N > 0 rows and offset >= N, a successful
\* load_with_total returns an empty page and count 0 (not N); and whenever
\* the database returned no rows, count is 0.
C3_OffsetPastEnd ==
    /\ (pc = "done" /\ result.ok /\ N > 0 /\ w.offset >= N) =>
          (result.results = <<>> /\ result.count = 0 /\ result.count # N)
    /\ (pc = "done" /\ db_result.ok /\ db_result.rows = <<>>) =>
          (result.ok /\ result.count = 0)

C3_Witness ==
    /\ pc = "done" /\ result.ok
    /\ N = 25 /\ w.offset = 2147483647 /\ w.limit = 10
    /\ result.results = <<>> /\ result.count = 0

\* C4: a successful walk_ast emits the select-with-window-count prefix, the
\* inner query's fragment unchanged, the alias and LIMIT keyword, the limit
\* as a BigInt bound parameter, the OFFSET keyword and the offset as a BigInt
\* bound parameter, in that order, the two parameters following the inner
\* query's; inner text SELECT id FROM t with limit 10 and offset 5 gives the
\* text ending in LIMIT $1 OFFSET $2 and parameters [10, 5].
C4_Rendering ==
    (pc = "rendered" /\ out.res = Ok) =>
        /\ out.out.sql =
              "SELECT *, COUNT(*) OVER () FROM (" \o InnerPass.sql
                \o ") AS x LIMIT " \o "$" \o ToString(Len(InnerPass.binds) + 1)
                \o " OFFSET " \o "$" \o ToString(Len(InnerPass.binds) + 2)
        /\ out.out.binds =
              InnerPass.binds \o <<BigIntParam(w.limit), BigIntParam(w.offset)>>
        /\ (query = PlainQuery /\ w.limit = 10 /\ w.offset = 5) =>
              /\ out.out.sql =
                   "SELECT *, COUNT(*) OVER () FROM (SELECT id FROM t) AS x LIMIT $1 OFFSET $2"
              /\ out.out.binds = <<BigIntParam(10), BigIntParam(5)>>

C4_Witness ==
    /\ pc = "rendered" /\ out.res = Ok
    /\ query = PlainQuery /\ w.limit = 10 /\ w.offset = 5
    /\ out.out.sql =
         "SELECT *, COUNT(*) OVER () FROM (SELECT id FROM t) AS x LIMIT $1 OFFSET $2"

\* C5: a limit step sets limit to its argument and leaves the inner query
\* and offset as they were; an offset step sets offset to its argument and
\* leaves the inner query and limit as they were; the inner query is always
\* the one given to counted_limit.
C5_BuilderFrame ==
    /\ [][ (pc = "built" /\ pc' = "built") =>
             LET c == calls'[Len(calls')]
             IN  /\ c.op = "limit" =>
                      (w'.limit = c.arg /\ w'.query = w.query /\ w'.offset = w.offset)
                 /\ c.op = "offset" =>
                      (w'.offset = c.arg /\ w'.query = w.query /\ w'.limit = w.limit)
         ]_vars
    /\ [](w.query = query)

C5_Witness ==
    /\ pc = "built" /\ Len(calls) = 2
    /\ calls[1].op = "limit" /\ LastCall.op = "offset"
    /\ prev.offset # LastCall.arg /\ w.offset = LastCall.arg
    /\ w.limit = prev.limit /\ w.limit # w.offset /\ w.query = query

\* C6: for every wrapper the chain can produce and all values a, b,
\* limit(a) then limit(b) gives the same wrapper as limit(b) alone, and
\* offset(a) then offset(b) the same as offset(b) alone; after two limit
\* (offset) calls in a row the wrapper is the one the second call alone
\* would have produced.
C6_LastWriteWins ==
    pc = "built" =>
        /\ \A a, b \in Values :
             /\ limit(limit(w, a), b) = limit(w, b)
             /\ offset(offset(w, a), b) = offset(w, b)
        /\ (Len(calls) = 2 /\ calls[1].op = "limit" /\ calls[2].op = "limit") =>
             \A x \in Values : w = limit([prev EXCEPT !.limit = x], calls[2].arg)
        /\ (Len(calls) = 2 /\ calls[1].op = "offset" /\ calls[2].op = "offset") =>
             \A x \in Values : w = offset([prev EXCEPT !.offset = x], calls[2].arg)

C6_Witness ==
    /\ pc = "built" /\ Len(calls) = 2
    /\ calls[1] = Call("limit", 10) /\ calls[2] = Call("limit", 5)
    /\ prev.limit = 10 /\ w.limit = 5

\* C7: a wrapper built by counted_limit with no offset step has offset 0,
\* and its rendering and its load are those of counted_limit(limit).offset(0).
C7_DefaultOffset ==
    (calls[1].op = "counted_limit" /\ \A i \in 1 .. Len(calls) : calls[i].op # "offset") =>
        LET explicit == offset(counted_limit(query, w.limit), 0)
        IN  /\ w.offset = 0
            /\ w = explicit
            /\ pc = "rendered" => out = walk_ast(explicit, EmptyPass)
            /\ pc = "done" => result = load_with_total(explicit, conn)

C7_Witness ==
    /\ pc = "done" /\ calls = <<Call("counted_limit", 10)>>
    /\ w.offset = 0 /\ N = 25
    /\ result.ok /\ Len(result.results) = 10 /\ result.results[1] = 1

\* C8: when the load fails (rendering, execution or decoding of a row),
\* load_with_total returns exactly that error and no results or count; the
\* statement is executed at most once; load_with_total is Ok only when the
\* load was; a failing inner rendering makes walk_ast return that error with
\* nothing emitted after the inner query's own output.
C8_ErrorPropagation ==
    /\ pc = "done" =>
          /\ ~db_result.ok => result = Err(db_result.err)
          /\ result.ok => db_result.ok
          /\ ~result.ok => DOMAIN result = {"ok", "err"}
          /\ (query.err = Ok /\ conn.execErr # Ok) => result = Err(conn.execErr)
          /\ (query.err = Ok /\ conn.execErr = Ok /\ conn.badRow > 0
                /\ conn.badRow <= Min(w.limit, Max(0, N - w.offset)))
                => result = Err("DeserializationError")
          /\ query.err # Ok => (result = Err(query.err) /\ execs = 0)
    /\ execs <= 1
    /\ (pc \in {"rendered", "done"} /\ query.err # Ok) =>
          /\ out.res = query.err
          /\ out.out = push_frags(push_sql(EmptyPass, "SELECT *, COUNT(*) OVER () FROM ("),
                                  query.frags)

C8_Witness ==
    /\ pc = "done" /\ query.err = Ok /\ conn.execErr = Ok
    /\ conn.badRow = 2 /\ N = 25 /\ w.limit = 5
    /\ db_result = Err("DeserializationError")
    /\ result = Err("DeserializationError")
    /\ execs = 1

\* C9: for the rendered wrapper, replacing limit and offset by any other
\* values leaves the SQL text identical; the values appear only as the two
\* bound parameters, each equal to the value the caller set.
C9_TextIndependentOfValues ==
    (pc = "rendered" /\ out.res = Ok) =>
        /\ \A l, o \in Values :
              walk_ast([w EXCEPT !.limit = l, !.offset = o], EmptyPass).out.sql
                = out.out.sql
        /\ Len(out.out.binds) = Len(InnerPass.binds) + 2
        /\ out.out.binds[Len(InnerPass.binds) + 1].val = w.limit
        /\ out.out.binds[Len(InnerPass.binds) + 2].val = w.offset

C9_Witness ==
    /\ pc = "rendered" /\ out.res = Ok
    /\ w.limit = 2147483647 /\ w.offset = 1
    /\ Len(InnerPass.binds) = 1
    /\ out.out.binds[2].val = 2147483647 /\ out.out.binds[3].val = 1

\* C10: decoding loaded rows (r1,c1) .. (rk,ck) gives results r1 .. rk, same
\* length and order, and for k > 0 the count c1 of the first row, whatever
\* the other rows carry.
C10_Decode ==
    (pc = "done" /\ db_result.ok) =>
        /\ result.ok
        /\ Len(result.results) = Len(db_result.rows)
        /\ \A i \in 1 .. Len(db_result.rows) : result.results[i] = db_result.rows[i][1]
        /\ Len(db_result.rows) > 0 => result.count = db_result.rows[1][2]

C10_Witness ==
    /\ pc = "done" /\ db_result.ok
    /\ db_result.rows = << <<2, 1>>, <<1, 25>> >>
    /\ result.results = <<2, 1>> /\ result.count = 1

====
